---- MODULE Spec2Model ----
(***************************************************************************)
(* Model of the Abaqus thermal ODB downgrader:                             *)
(*   export_odb_nt11.py       source store -> mesh.json, steps.json,       *)
(*                            nt11.jsonl                                   *)
(*   import_odb_nt11_2019.py  the three files -> a new target store        *)
(*                                                                         *)
(* Python values are modelled as follows.  A dict is a function or, where  *)
(* its iteration order matters (Python 2.7 gives no order), a sequence in  *)
(* insertion order that is iterated in any order.  None is a record with    *)
(* the flag isNone.  A float is the number it holds.  An abaqusConstants   *)
(* symbolic constant is the string of its name prefixed by "#".            *)
(***************************************************************************)
EXTENDS Naturals, Integers, Sequences, FiniteSets, TLC

VARIABLES
  \* ---- the source store read by the exporter
  srcMesh,      \* odb.rootAssembly.instances: name -> [nodes, elements]
  srcFrames,    \* len(odb.steps[name].frames) for each step
  srcFields,    \* the NT11 fields read so far: <<[step, frame_index, values]>>
  \* ---- exporter (export_odb_nt11.py)
  e_pc,         \* position of the exporter in main / export_nt11
  e_odbOpen,    \* the handle returned by openOdb(odb_path, readOnly=True)
  e_outOpen,    \* the file object `out` of export_nt11
  step_filter,  \* the allow-list returned by parse_args
  e_sidx,       \* position in odb.steps.items()
  e_fidx,       \* fidx of export_nt11
  fo,           \* fo.values of the current frame
  e_vi,         \* position in fo.values
  buckets,      \* the dict `buckets`, in insertion order
  \* ---- the three files
  meshDoc,      \* mesh.json
  stepsDoc,     \* steps.json
  nt11,         \* nt11.jsonl, one entry per line
  \* ---- importer (import_odb_nt11_2019.py)
  i_pc,         \* position of the importer in main
  todo,         \* instances of mesh['instances'] not yet built
  i_sidx,       \* position in steps_json['steps']
  i_line,       \* lines of nt11.jsonl consumed by stream_jsonl
  inst_map,     \* inst_map: instance name -> handle
  sp_pool,      \* sp_pool: <<[key, handle]>>
  step_objs,    \* keys of step_objs
  frame_objs,   \* frame_objs: (step, frame index) -> frame handle
  nt11_cache,   \* nt11_cache: (step, frame index) -> field-output handle
  \* ---- the target store
  odb,          \* the importer's handle: [state, gen]
  mem,          \* the open store's object graph
  disk,         \* what the last save wrote
  calls,        \* every call made on the target store, in order
  meshDoc2      \* mesh.json of a second export, from the target store

srcVars  == <<srcMesh, srcFrames, srcFields>>
expVars  == <<e_pc, e_odbOpen, e_outOpen, step_filter, e_sidx, e_fidx, fo,
              e_vi, buckets>>
fileVars == <<meshDoc, stepsDoc, nt11>>
impVars  == <<i_pc, todo, i_sidx, i_line, inst_map, sp_pool, step_objs,
              frame_objs, nt11_cache>>
tgtVars  == <<odb, mem, disk, calls>>

vars == <<srcVars, expVars, fileVars, impVars, tgtVars, meshDoc2>>

\* ------------------------------------------------------------------ bounds
\* Most NT11 value records in the whole source store.
MaxVals == 2
\* The frames of the whole source store.
MaxFrames == 2
\* Most lines of nt11.jsonl read by the importer.
MaxLines == 2
\* Most nodes and most elements of an instance of the source store's mesh.
MaxNodes == 2
MaxElems == 3

\* ------------------------------------------------------- helper operators
Range(s) == {s[i] : i \in DOMAIN s}

SeqsUpTo(S, n) == UNION {[1..k -> S] : k \in 0..n}

RemoveAt(s, i) == [j \in 1..(Len(s) - 1) |-> IF j < i THEN s[j] ELSE s[j + 1]]

RECURSIVE SumLen(_)
SumLen(s) == IF s = <<>> THEN 0 ELSE Len(Head(s).values) + SumLen(Tail(s))

\* ------------------------------------------------- the source store's data
\* None, as the value of getattr(v, "sectionPoint", None).
NoSectionPoint == [isNone |-> TRUE, id |-> 0, number |-> 0, description |-> ""]

\* Section-point handles of the source store.  Handles 1 and 2 are distinct
\* objects carrying equal (number, description).
SectionPoints ==
  { [isNone |-> FALSE, id |-> 1, number |-> 1, description |-> "Top"],
    [isNone |-> FALSE, id |-> 2, number |-> 1, description |-> "Top"],
    [isNone |-> FALSE, id |-> 3, number |-> 2, description |-> "Top"] }

InstanceNames == {"A", "B"}

\* v.data: a scalar, a 1-element sequence, or another shape.
Payloads ==
  { [kind |-> "scalar", items |-> <<5>>],
    [kind |-> "seq",    items |-> <<7>>],
    [kind |-> "seq",    items |-> <<7, 8>>] }

\* Where a value is anchored: its position, its section point and which of
\* nodeLabel / elementLabel the record carries.
NodalAnchor ==
  [position |-> "#NODAL", sp |-> NoSectionPoint, node |-> TRUE, elem |-> FALSE]

Anchors ==
  {NodalAnchor}
  \cup { [position |-> "#ELEMENT_NODAL", sp |-> NoSectionPoint,
          node |-> TRUE, elem |-> TRUE],
         [position |-> "#INTEGRATION_POINT", sp |-> NoSectionPoint,
          node |-> FALSE, elem |-> TRUE] }
  \cup { [position |-> "#INTEGRATION_POINT", sp |-> h,
          node |-> FALSE, elem |-> TRUE] : h \in SectionPoints }

\* One FieldValue of the source store.  A record that carries both labels
\* (ELEMENT_NODAL) has an element label different from its node label.
FieldValue(inst, a, l, d) ==
  [ instance        |-> inst,
    position        |-> a.position,
    sectionPoint    |-> a.sp,
    hasNodeLabel    |-> a.node,
    nodeLabel       |-> IF a.node THEN l ELSE 0,
    hasElementLabel |-> a.elem,
    elementLabel    |-> IF a.elem THEN (IF a.node THEN 3 - l ELSE l) ELSE 0,
    data            |-> d ]

ScalarPayload == [kind |-> "scalar", items |-> <<5>>]

\* The record the others vary: instance A, node 1, a scalar payload.
BaseValue == FieldValue("A", NodalAnchor, 1, ScalarPayload)

\* The value records a frame's NT11 field may hold: the base record with its
\* instance, its payload or its anchor changed, and one record with another
\* label and another payload.
FieldValues ==
  { FieldValue(i, NodalAnchor, 1, ScalarPayload) : i \in InstanceNames }
  \cup { FieldValue("A", NodalAnchor, 1, d) : d \in Payloads \ {[kind |-> "seq", items |-> <<7>>]} }
  \cup { FieldValue("A", a, 1, ScalarPayload) : a \in Anchors }
  \cup { FieldValue("A", NodalAnchor, 2, [kind |-> "seq", items |-> <<7>>]) }

\* odb.steps.items(): the steps of the source store, in repository order.
StepNames == <<"S1", "S2">>

\* step.frames[idx].frameValue
SrcFrameValue(sname, idx) == 5 * idx + (IF sname = "S1" THEN 0 ELSE 1)

\* step.frames[idx].description
SrcFrameDescription(sname, idx) == IF idx = 0 THEN "" ELSE "Increment"

\* len(step.frames) of every step of a source store of MaxFrames frames.
FrameCounts ==
  { f \in [Range(StepNames) -> 0..MaxFrames] : f["S1"] + f["S2"] = MaxFrames }

\* The values parse_args can return for step_filter: None (no --steps), the
\* empty list (--steps ","), or a list of names.
NoFilter == [given |-> FALSE, names |-> <<>>]

StepFilters ==
  { NoFilter,
    [given |-> TRUE, names |-> <<>>],
    [given |-> TRUE, names |-> <<"S2">>] }

\* `step_filter and sname not in step_filter`
FilteredOut(filter, sname) ==
  filter.given /\ filter.names # <<>> /\ sname \notin Range(filter.names)

\* ---------------------------------------------- exporter: pure functions
position_name(pos) ==
  CASE pos = "#NODAL"             -> "NODAL"
    [] pos = "#ELEMENT_NODAL"     -> "ELEMENT_NODAL"
    [] pos = "#INTEGRATION_POINT" -> "INTEGRATION_POINT"
    [] pos = "#WHOLE_ELEMENT"     -> "WHOLE_ELEMENT"
    [] OTHER                      -> SubSeq(pos, 2, Len(pos))

\* A section-point dict of the stream, or null.
NullSP == [isNone |-> TRUE, numIsNone |-> FALSE, number |-> 0, description |-> ""]

sp_to_dict(sp) ==
  IF sp.isNone THEN NullSP
  ELSE [isNone |-> FALSE, numIsNone |-> FALSE,
        number |-> sp.number, description |-> sp.description]

\* str(n) for the integers the model uses.
IntStr(n) ==
  CASE n = 0 -> "0" [] n = 1 -> "1" [] n = 2 -> "2" [] n = 3 -> "3"
    [] OTHER -> "n"

\* json.dumps(sp, sort_keys=True)
JsonDumpsSP(d) ==
  IF d.isNone THEN "null"
  ELSE "{\"description\": \"" \o d.description \o "\", \"number\": "
       \o (IF d.numIsNone THEN "null" ELSE IntStr(d.number)) \o "}"

\* Mutant of BucketKey: the section point enters the key by the identity of
\* its handle instead of its JSON text.
BucketKey_ByHandle(v) ==
  <<v.instance, position_name(v.position), IntStr(v.sectionPoint.id)>>

\* Mutant of BucketKey: the position is left out of the key.
BucketKey_NoPosition(v) ==
  <<v.instance, "", JsonDumpsSP(sp_to_dict(v.sectionPoint))>>

\* key = (iname, pos, json.dumps(sp, sort_keys=True))
BucketKey(v) ==
  <<v.instance, position_name(v.position),
    JsonDumpsSP(sp_to_dict(v.sectionPoint))>>

\* lbl = getattr(v, "nodeLabel", getattr(v, "elementLabel", None))
ValueLabel(v) == IF v.hasNodeLabel THEN v.nodeLabel ELSE v.elementLabel

\* Mutant of PayloadOK: any payload is taken, a longer sequence by its first
\* item.
PayloadOK_Any(val) == TRUE

\* float(val) succeeds, or val is a sequence of length 1.
PayloadOK(val) == val.kind = "scalar" \/ Len(val.items) = 1

\* valf
PayloadFloat(val) == val.items[1]

\* buckets.setdefault(key, {...}) followed by the two appends.
BucketIndex(bs, key) ==
  IF \E i \in DOMAIN bs : bs[i].key = key
  THEN CHOOSE i \in DOMAIN bs : bs[i].key = key
  ELSE 0

\* Mutant of AddToBucket: the value is inserted at the front of b["values"].
AddToBucket_ValueInFront(bs, v) ==
  LET key == BucketKey(v)
      i   == BucketIndex(bs, key)
      new == [key |-> key, labels |-> <<>>, values |-> <<>>,
              instance |-> v.instance,
              position |-> position_name(v.position),
              section_point |-> sp_to_dict(v.sectionPoint)]
      bs1 == IF i = 0 THEN Append(bs, new) ELSE bs
      j   == IF i = 0 THEN Len(bs1) ELSE i
  IN  [bs1 EXCEPT ![j].labels = Append(@, ValueLabel(v)),
                  ![j].values = <<<<PayloadFloat(v.data)>>>> \o @]

AddToBucket(bs, v) ==
  LET key == BucketKey(v)
      i   == BucketIndex(bs, key)
      new == [key |-> key, labels |-> <<>>, values |-> <<>>,
              instance |-> v.instance,
              position |-> position_name(v.position),
              section_point |-> sp_to_dict(v.sectionPoint)]
      bs1 == IF i = 0 THEN Append(bs, new) ELSE bs
      j   == IF i = 0 THEN Len(bs1) ELSE i
  IN  [bs1 EXCEPT ![j].labels = Append(@, ValueLabel(v)),
                  ![j].values = Append(@, <<PayloadFloat(v.data)>>)]

\* The record written for one bucket.
BucketRecord(sname, fidx, b) ==
  [ step          |-> sname,
    frame_index   |-> fidx,
    frame_value   |-> SrcFrameValue(sname, fidx),
    instance      |-> b.instance,
    position      |-> b.position,
    section_point |-> b.section_point,
    labels        |-> b.labels,
    values        |-> b.values ]

\* One node of mesh.json: [label, x, y, z], 2-D coordinates padded with 0.
ExportNode(n) ==
  <<n.label, n.coordinates[1], n.coordinates[2],
    IF Len(n.coordinates) = 2 THEN 0 ELSE n.coordinates[3]>>

\* The document export_mesh writes for the given instances; convert_to_native
\* leaves its numbers, strings and lists as they are.
export_mesh(instances) ==
  [ iname \in DOMAIN instances |->
      [ nodes    |-> [i \in DOMAIN instances[iname].nodes |->
                        ExportNode(instances[iname].nodes[i])],
        elements |-> [i \in DOMAIN instances[iname].elements |->
                        [ label        |-> instances[iname].elements[i].label,
                          type         |-> instances[iname].elements[i].type,
                          connectivity |->
                            instances[iname].elements[i].connectivity ]] ] ]

\* The steps list export_steps writes.
RECURSIVE export_steps(_, _, _)
export_steps(names, frames, filter) ==
  IF names = <<>> THEN <<>>
  ELSE LET sname == Head(names)
           rest  == export_steps(Tail(names), frames, filter)
       IN  IF FilteredOut(filter, sname) THEN rest
           ELSE << [ name      |-> sname,
                     domain    |-> "TIME",
                     numFrames |-> frames[sname],
                     frames    |-> [k \in 1..frames[sname] |->
                                      [ index       |-> k - 1,
                                        value       |-> SrcFrameValue(sname, k - 1),
                                        description |->
                                          SrcFrameDescription(sname, k - 1) ]] ] >>
                \o rest

\* ------------------------------------------------------ exporter: actions
NoDoc == [written |-> FALSE, body |-> <<>>]

\* sname of the loop over odb.steps.items()
e_sname == StepNames[e_sidx]

\* main: odb = openOdb(odb_path, readOnly=True)
ExpOpenOdb ==
  /\ e_pc = "main"
  /\ e_odbOpen' = TRUE
  /\ e_pc' = "export_mesh"
  /\ UNCHANGED <<e_outOpen, step_filter, e_sidx, e_fidx, fo, e_vi, buckets>>
  /\ UNCHANGED <<srcVars, fileVars, impVars, tgtVars, meshDoc2>>

\* main: export_mesh(odb, out_dir)
ExpMesh ==
  /\ e_pc = "export_mesh"
  /\ meshDoc' = [written |-> TRUE, body |-> export_mesh(srcMesh)]
  /\ e_pc' = "export_steps"
  /\ UNCHANGED <<e_odbOpen, e_outOpen, step_filter, e_sidx, e_fidx, fo, e_vi,
                 buckets>>
  /\ UNCHANGED <<srcVars, stepsDoc, nt11, impVars, tgtVars, meshDoc2>>

\* main: export_steps(odb, step_filter, out_dir)
ExpSteps ==
  /\ e_pc = "export_steps"
  /\ stepsDoc' = [written |-> TRUE,
                  body |-> export_steps(StepNames, srcFrames, step_filter)]
  /\ e_pc' = "export_nt11"
  /\ UNCHANGED <<e_odbOpen, e_outOpen, step_filter, e_sidx, e_fidx, fo, e_vi,
                 buckets>>
  /\ UNCHANGED <<srcVars, meshDoc, nt11, impVars, tgtVars, meshDoc2>>

\* export_nt11: out = open(path, "w")
ExpOpenOut ==
  /\ e_pc = "export_nt11"
  /\ e_outOpen' = TRUE
  /\ nt11' = <<>>
  /\ e_sidx' = 1
  /\ e_pc' = "step"
  /\ UNCHANGED <<e_odbOpen, step_filter, e_fidx, fo, e_vi, buckets>>
  /\ UNCHANGED <<srcVars, meshDoc, stepsDoc, impVars, tgtVars, meshDoc2>>

\* Mutant of ExpStep: export_nt11 does not look at the allow-list.
ExpStep_NoFilter ==
  /\ e_pc = "step"
  /\ IF e_sidx > Len(StepNames)
     THEN /\ e_pc' = "close_out"
          /\ UNCHANGED <<e_sidx, e_fidx>>
     ELSE /\ e_fidx' = 0
          /\ e_pc' = "frame"
          /\ UNCHANGED e_sidx
  /\ UNCHANGED <<e_odbOpen, e_outOpen, step_filter, fo, e_vi, buckets>>
  /\ UNCHANGED <<srcVars, fileVars, impVars, tgtVars, meshDoc2>>

\* One turn of `for sname, step in odb.steps.items()`: the step is skipped
\* by the filter or its frames are entered; after the last step the loop ends.
ExpStep ==
  /\ e_pc = "step"
  /\ IF e_sidx > Len(StepNames)
     THEN /\ e_pc' = "close_out"
          /\ UNCHANGED <<e_sidx, e_fidx>>
     ELSE IF FilteredOut(step_filter, e_sname)
     THEN /\ e_sidx' = e_sidx + 1
          /\ UNCHANGED <<e_pc, e_fidx>>
     ELSE /\ e_fidx' = 0
          /\ e_pc' = "frame"
          /\ UNCHANGED e_sidx
  /\ UNCHANGED <<e_odbOpen, e_outOpen, step_filter, fo, e_vi, buckets>>
  /\ UNCHANGED <<srcVars, fileVars, impVars, tgtVars, meshDoc2>>

\* After the last frame of the step: on to the next step.
ExpFramesEnd ==
  /\ e_pc = "frame"
  /\ e_fidx >= srcFrames[e_sname]
  /\ e_sidx' = e_sidx + 1
  /\ e_pc' = "step"
  /\ UNCHANGED <<e_odbOpen, e_outOpen, step_filter, e_fidx, fo, e_vi, buckets>>
  /\ UNCHANGED <<srcVars, fileVars, impVars, tgtVars, meshDoc2>>

\* Mutant of ExpFrameSkip: a frame without NT11 values ends the frame loop of
\* its step.
ExpFrameSkip_Break ==
  /\ e_pc = "frame"
  /\ e_fidx < srcFrames[e_sname]
  /\ e_sidx' = e_sidx + 1
  /\ e_pc' = "step"
  /\ UNCHANGED <<e_odbOpen, e_outOpen, step_filter, e_fidx, fo, e_vi, buckets>>
  /\ UNCHANGED <<srcVars, fileVars, impVars, tgtVars, meshDoc2>>

\* A frame with no "NT11" in its fieldOutputs, or whose fo.values is empty.
ExpFrameSkip ==
  /\ e_pc = "frame"
  /\ e_fidx < srcFrames[e_sname]
  /\ e_fidx' = e_fidx + 1
  /\ UNCHANGED <<e_pc, e_odbOpen, e_outOpen, step_filter, e_sidx, fo, e_vi,
                 buckets>>
  /\ UNCHANGED <<srcVars, fileVars, impVars, tgtVars, meshDoc2>>

\* A frame whose NT11 field holds values: buckets = {} and the loop over
\* fo.values starts.
ExpFrameField ==
  /\ e_pc = "frame"
  /\ e_fidx < srcFrames[e_sname]
  /\ \E vals \in SeqsUpTo(FieldValues, MaxVals - SumLen(srcFields)) \ {<<>>} :
       /\ fo' = vals
       /\ srcFields' = Append(srcFields,
            [step |-> e_sname, frame_index |-> e_fidx, values |-> vals])
  /\ buckets' = <<>>
  /\ e_vi' = 1
  /\ e_pc' = "values"
  /\ UNCHANGED <<e_odbOpen, e_outOpen, step_filter, e_sidx, e_fidx>>
  /\ UNCHANGED <<srcMesh, srcFrames, fileVars, impVars, tgtVars, meshDoc2>>

\* One turn of `for v in fo.values`.  A payload that is neither a scalar nor
\* a 1-element sequence raises out of export_nt11 and out of main.
ExpValue ==
  /\ e_pc = "values"
  /\ IF e_vi > Len(fo)
     THEN /\ e_pc' = "flush"
          /\ UNCHANGED <<e_vi, buckets>>
     ELSE IF ~PayloadOK(fo[e_vi].data)
     THEN /\ e_pc' = "raised"
          /\ UNCHANGED <<e_vi, buckets>>
     ELSE /\ buckets' = AddToBucket(buckets, fo[e_vi])
          /\ e_vi' = e_vi + 1
          /\ UNCHANGED e_pc
  /\ UNCHANGED <<e_odbOpen, e_outOpen, step_filter, e_sidx, e_fidx, fo>>
  /\ UNCHANGED <<srcVars, fileVars, impVars, tgtVars, meshDoc2>>

\* One turn of `for key, b in buckets.items()`: Python 2.7 iterates the dict
\* in no particular order.
ExpFlush ==
  /\ e_pc = "flush"
  /\ buckets # <<>>
  /\ \E i \in DOMAIN buckets :
       /\ nt11' = Append(nt11, BucketRecord(e_sname, e_fidx, buckets[i]))
       /\ buckets' = RemoveAt(buckets, i)
  /\ UNCHANGED <<e_pc, e_odbOpen, e_outOpen, step_filter, e_sidx, e_fidx, fo,
                 e_vi>>
  /\ UNCHANGED <<srcVars, meshDoc, stepsDoc, impVars, tgtVars, meshDoc2>>

\* Every bucket of the frame is written: next frame.
ExpFlushEnd ==
  /\ e_pc = "flush"
  /\ buckets = <<>>
  /\ e_fidx' = e_fidx + 1
  /\ e_pc' = "frame"
  /\ UNCHANGED <<e_odbOpen, e_outOpen, step_filter, e_sidx, fo, e_vi, buckets>>
  /\ UNCHANGED <<srcVars, fileVars, impVars, tgtVars, meshDoc2>>

\* export_nt11: out.close()
ExpCloseOut ==
  /\ e_pc = "close_out"
  /\ e_outOpen' = FALSE
  /\ e_pc' = "close_odb"
  /\ UNCHANGED <<e_odbOpen, step_filter, e_sidx, e_fidx, fo, e_vi, buckets>>
  /\ UNCHANGED <<srcVars, fileVars, impVars, tgtVars, meshDoc2>>

\* main: odb.close()
ExpCloseOdb ==
  /\ e_pc = "close_odb"
  /\ e_odbOpen' = FALSE
  /\ e_pc' = "done"
  /\ UNCHANGED <<e_outOpen, step_filter, e_sidx, e_fidx, fo, e_vi, buckets>>
  /\ UNCHANGED <<srcVars, fileVars, impVars, tgtVars, meshDoc2>>

\* ---------------------------------------------------- the target store
\* The object graph of a store; `exists` is false before Odb(...) and on a
\* disk nothing was saved to.
NoStore == [exists |-> FALSE, parts |-> <<>>, instances |-> <<>>,
            sectionCategories |-> <<>>, sectionPoints |-> <<>>,
            steps |-> <<>>, frames |-> <<>>, fieldOutputs |-> <<>>]

\* One entry of `calls`: the API called, the stream line being replayed (0
\* outside the stream loop), the arguments the claims read and the store
\* handle the call is made on or under: the value of `odb` at the call, by
\* the number of the opening that returned it (0 for Odb and openOdb, which
\* are called on no handle).
Call(op, line, info) ==
  [op |-> op, line |-> line, info |-> info,
   handle |-> IF op \in {"Odb", "openOdb"} THEN 0 ELSE odb.gen]

GeometryOps == {"Part", "addNodes", "addElements", "Instance"}
ResultsOps  == {"SectionCategory", "SectionPoint", "Step", "Frame",
                "FieldOutput", "addData"}

\* ---------------------------------------------- importer: pure functions
\* to_str: the byte string of an ASCII text is the text.
to_str(t) == t

pos_from_name(name) ==
  CASE to_str(name) = "NODAL"             -> "#NODAL"
    [] to_str(name) = "ELEMENT_NODAL"     -> "#ELEMENT_NODAL"
    [] to_str(name) = "INTEGRATION_POINT" -> "#INTEGRATION_POINT"
    [] to_str(name) = "WHOLE_ELEMENT"     -> "#WHOLE_ELEMENT"
    [] OTHER                              -> "#NODAL"

\* stream_jsonl skips a line that is empty after strip().
BlankLine == [blank |-> TRUE]
IsBlank(line) == "blank" \in DOMAIN line

\* ensure_tuple(labels), after labels = [int(x) for x in rec['labels']]
ensure_tuple(labels) == [i \in DOMAIN labels |-> labels[i]]

\* ensure_tuple_seq(values): every 1-element list becomes a 1-tuple.
ensure_tuple_seq(values) ==
  [i \in DOMAIN values |-> [j \in DOMAIN values[i] |-> values[i][j]]]

\* Mutant of SPKey: the number is left out of the key.
SPKey_DescriptionOnly(sp_dict) == <<1, to_str(sp_dict.description)>>

\* key = (int(num) if num is not None else 1, to_str(desc))
SPKey(sp_dict) ==
  <<IF sp_dict.numIsNone THEN 1 ELSE sp_dict.number, to_str(sp_dict.description)>>

\* The position of key in sp_pool, 0 if absent.
PoolIndex(pool, key) ==
  IF \E i \in DOMAIN pool : pool[i].key = key
  THEN CHOOSE i \in DOMAIN pool : pool[i].key = key
  ELSE 0

\* The types of an instance's elements: the keys of `groups`.
ElementTypes(elements) == {elements[i].type : i \in DOMAIN elements}

\* The orders groups.items() can yield the types in.
Orders(S) == {o \in [1..Cardinality(S) -> S] : Range(o) = S}

\* groups[ety]: (label,) + connectivity of every element of the type, in
\* document order.
RECURSIVE GroupData(_, _)
GroupData(elements, ety) ==
  IF elements = <<>> THEN <<>>
  ELSE (IF Head(elements).type = to_str(ety)
        THEN << <<Head(elements).label>> \o Head(elements).connectivity >>
        ELSE <<>>)
       \o GroupData(Tail(elements), ety)

\* p.addElements(elementData=..., type=ety): the store appends the elements
\* to the part in the order given.
addElements(part, eData, ety) ==
  [part EXCEPT !.elements =
     @ \o [i \in DOMAIN eData |->
             [label |-> eData[i][1], type |-> ety,
              connectivity |-> Tail(eData[i])]]]

\* p.addNodes(nodeData=...)
addNodes(part, nodeData) ==
  [part EXCEPT !.nodes =
     @ \o [i \in DOMAIN nodeData |->
             [label |-> nodeData[i][1],
              coordinates |-> Tail(nodeData[i])]]]

\* The part after the addElements calls for the types in the given order.
RECURSIVE AddGroups(_, _, _)
AddGroups(part, elements, order) ==
  IF order = <<>> THEN part
  ELSE AddGroups(addElements(part, GroupData(elements, Head(order)), Head(order)),
                 elements, Tail(order))

\* The part built for one inst_rec of mesh.json.
BuildPart(inst_rec, order) ==
  LET empty  == [nodes |-> <<>>, elements |-> <<>>]
      noded  == IF inst_rec.nodes # <<>>
                THEN addNodes(empty, inst_rec.nodes) ELSE empty
  IN  AddGroups(noded, inst_rec.elements, order)

\* The calls made on the store for one inst_rec.
PartCalls(inst_rec, order) ==
  <<Call("Part", 0, <<>>)>>
  \o (IF inst_rec.nodes # <<>> THEN <<Call("addNodes", 0, <<>>)>> ELSE <<>>)
  \o [i \in DOMAIN order |-> Call("addElements", 0, order[i])]
  \o <<Call("Instance", 0, <<>>)>>

\* odb.rootAssembly.instances of a store, as export_mesh reads it: the nodes
\* and elements of an instance are those of its part.
StoreInstances(store) ==
  [iname \in DOMAIN store.instances |-> store.parts[store.instances[iname]]]

\* tp of one step of steps.json, then max(tp, 0.0)
TimePeriod(s) ==
  LET tp == IF s.frames # <<>> THEN s.frames[Len(s.frames)].value ELSE 0
  IN  IF tp > 0 THEN tp ELSE 0

\* ------------------------------------------------ the importer's inputs
\* A section-point object of the stream.
SPDict(num, desc) ==
  [isNone |-> FALSE, numIsNone |-> FALSE, number |-> num, description |-> desc]

\* {"number": null, "description": desc}
SPDictNoNumber(desc) ==
  [isNone |-> FALSE, numIsNone |-> TRUE, number |-> 0, description |-> desc]

StreamSectionPoints ==
  {NullSP, SPDict(1, "Top"), SPDict(2, "Top"), SPDictNoNumber("Top")}

StreamPositions == {"NODAL", "INTEGRATION_POINT", "CENTROID"}

StreamPayloads ==
  { [labels |-> <<1, 2>>, values |-> << <<5>>, <<7>> >>],
    [labels |-> <<2>>,    values |-> << <<7>> >>] }

StreamRecord(sname, fidx, iname, pos, sp, pl) ==
  [ step          |-> sname,
    frame_index   |-> fidx,
    frame_value   |-> SrcFrameValue(sname, fidx),
    instance      |-> iname,
    position      |-> pos,
    section_point |-> sp,
    labels        |-> pl.labels,
    values        |-> pl.values ]

BasePayload == [labels |-> <<1, 2>>, values |-> << <<5>>, <<7>> >>]

\* The records a stream may hold: the record (S1, 0, A, NODAL, null) with
\* its (step, frame index), its (position, section point) or its (instance,
\* payload) changed.
StreamRecords ==
  { StreamRecord(s, f, "A", "NODAL", NullSP, BasePayload) :
      s \in {"S1", "S2"}, f \in {0, 1} }
  \cup { StreamRecord("S1", 0, "A", p, sp, BasePayload) :
           p \in StreamPositions, sp \in StreamSectionPoints }
  \cup { StreamRecord("S1", 0, i, "NODAL", NullSP, pl) :
           i \in InstanceNames, pl \in StreamPayloads }

\* The lines stream_jsonl may read.
StreamLines == StreamRecords \cup {BlankLine}

CatalogFrame(sname, idx) ==
  [index |-> idx, value |-> SrcFrameValue(sname, idx),
   description |-> SrcFrameDescription(sname, idx)]

CatalogStep(sname, n) ==
  [name |-> sname, domain |-> "TIME", numFrames |-> n,
   frames |-> [k \in 1..n |-> CatalogFrame(sname, k - 1)]]

\* The catalogs the importer may read: no step; S1 with frame 0; S1 with
\* frames 0 and 1 and S2 without frames.
Catalogs ==
  { <<>>,
    <<CatalogStep("S1", 1)>>,
    <<CatalogStep("S1", 2), CatalogStep("S2", 0)>> }

MeshNode(l) == <<l, l, 0, 0>>

MeshElement(l, ety) == [label |-> l, type |-> ety, connectivity |-> <<1, 2>>]

\* The mesh documents the importer may read: instance A with two nodes and
\* two elements of different types and a point-cloud instance B; or an
\* instance A with neither nodes nor elements.
ImportMeshes ==
  { [n \in {"A", "B"} |->
       IF n = "A"
       THEN [nodes    |-> <<MeshNode(1), MeshNode(2)>>,
             elements |-> <<MeshElement(1, "DC2D4"), MeshElement(2, "DC2D3")>>]
       ELSE [nodes |-> <<MeshNode(1)>>, elements |-> <<>>]],
    [n \in {"A"} |-> [nodes |-> <<>>, elements |-> <<>>]] }

\* ------------------------------------------------------ importer: actions
\* main: odb = Odb(...); ra = odb.rootAssembly; mesh = load_json(mesh_path)
ImpCreateOdb ==
  /\ i_pc = "main"
  /\ meshDoc.written
  /\ odb' = [state |-> "open", gen |-> 1]
  /\ mem' = [NoStore EXCEPT !.exists = TRUE]
  /\ calls' = Append(calls, Call("Odb", 0, <<>>))
  /\ todo' = DOMAIN meshDoc.body
  /\ i_pc' = "geometry"
  /\ UNCHANGED <<i_sidx, i_line, inst_map, sp_pool, step_objs, frame_objs,
                 nt11_cache, disk>>
  /\ UNCHANGED <<srcVars, expVars, fileVars, meshDoc2>>

\* One turn of `for iname_u, inst_rec in mesh['instances'].items()`: Part,
\* addNodes if there are nodes, addElements per type, Instance.  The dicts
\* mesh['instances'] and groups are iterated in no particular order.
ImpInstance ==
  /\ i_pc = "geometry"
  /\ \E iname \in todo :
       \E order \in Orders(ElementTypes(meshDoc.body[iname].elements)) :
         LET part_name == to_str("PART_FROM_" \o iname) IN
         /\ mem' = [mem EXCEPT
              !.parts = (part_name :> BuildPart(meshDoc.body[iname], order)) @@ @,
              !.instances = (to_str(iname) :> part_name) @@ @]
         /\ calls' = calls \o PartCalls(meshDoc.body[iname], order)
         /\ todo' = todo \ {iname}
  /\ UNCHANGED <<i_pc, i_sidx, i_line, inst_map, sp_pool, step_objs,
                 frame_objs, nt11_cache, odb, disk>>
  /\ UNCHANGED <<srcVars, expVars, fileVars, meshDoc2>>

\* Mutant of ImpSave: the results stage starts on the store as built, with
\* no save, close and reopen.
ImpSave_NoBarrier ==
  /\ i_pc = "geometry"
  /\ todo = {}
  /\ i_pc' = "inst_map"
  /\ UNCHANGED <<todo, i_sidx, i_line, inst_map, sp_pool, step_objs,
                 frame_objs, nt11_cache>>
  /\ UNCHANGED <<srcVars, expVars, fileVars, tgtVars, meshDoc2>>

\* main: odb.save(), after the last instance
ImpSave ==
  /\ i_pc = "geometry"
  /\ todo = {}
  /\ disk' = mem
  /\ calls' = Append(calls, Call("save", 0, <<>>))
  /\ i_pc' = "close"
  /\ UNCHANGED <<todo, i_sidx, i_line, inst_map, sp_pool, step_objs,
                 frame_objs, nt11_cache, odb, mem>>
  /\ UNCHANGED <<srcVars, expVars, fileVars, meshDoc2>>

\* main: odb.close()
ImpClose ==
  /\ i_pc = "close"
  /\ odb' = [odb EXCEPT !.state = "closed"]
  /\ calls' = Append(calls, Call("close", 0, <<>>))
  /\ i_pc' = "reopen"
  /\ UNCHANGED <<todo, i_sidx, i_line, inst_map, sp_pool, step_objs,
                 frame_objs, nt11_cache, mem, disk>>
  /\ UNCHANGED <<srcVars, expVars, fileVars, meshDoc2>>

\* Mutant of ImpReopen: the results stage starts on a fresh store instead of
\* the one saved by the geometry stage.
ImpReopen_Fresh ==
  /\ i_pc = "reopen"
  /\ odb' = [state |-> "open", gen |-> odb.gen + 1]
  /\ mem' = [NoStore EXCEPT !.exists = TRUE]
  /\ calls' = Append(calls, Call("openOdb", 0, <<>>))
  /\ i_pc' = "inst_map"
  /\ UNCHANGED <<todo, i_sidx, i_line, inst_map, sp_pool, step_objs,
                 frame_objs, nt11_cache, disk>>
  /\ UNCHANGED <<srcVars, expVars, fileVars, meshDoc2>>

\* main: odb = openOdb(path=out_odb, readOnly=False); ra = odb.rootAssembly
ImpReopen ==
  /\ i_pc = "reopen"
  /\ odb' = [state |-> "open", gen |-> odb.gen + 1]
  /\ mem' = disk
  /\ calls' = Append(calls, Call("openOdb", 0, <<>>))
  /\ i_pc' = "inst_map"
  /\ UNCHANGED <<todo, i_sidx, i_line, inst_map, sp_pool, step_objs,
                 frame_objs, nt11_cache, disk>>
  /\ UNCHANGED <<srcVars, expVars, fileVars, meshDoc2>>

\* Mutant of ImpInstMap: the map holds the instance handles of the store as
\* it was before the save and close.
ImpInstMap_Stale ==
  /\ i_pc = "inst_map"
  /\ inst_map' = [k \in DOMAIN mem.instances |->
                    [name |-> to_str(k), gen |-> odb.gen - 1]]
  /\ i_pc' = "section_category"
  /\ UNCHANGED <<todo, i_sidx, i_line, sp_pool, step_objs, frame_objs,
                 nt11_cache>>
  /\ UNCHANGED <<srcVars, expVars, fileVars, tgtVars, meshDoc2>>

\* main: inst_map rebuilt from ra.instances of the reopened store
ImpInstMap ==
  /\ i_pc = "inst_map"
  /\ inst_map' = [k \in DOMAIN mem.instances |->
                    [name |-> to_str(k), gen |-> odb.gen]]
  /\ i_pc' = "section_category"
  /\ UNCHANGED <<todo, i_sidx, i_line, sp_pool, step_objs, frame_objs,
                 nt11_cache>>
  /\ UNCHANGED <<srcVars, expVars, fileVars, tgtVars, meshDoc2>>

\* main: sCat = odb.SectionCategory(...); sp_pool = {}; step_objs = {};
\* frame_objs = {}
ImpSectionCategory ==
  /\ i_pc = "section_category"
  /\ mem' = [mem EXCEPT !.sectionCategories = Append(@, "GEN_SEC_CAT")]
  /\ calls' = Append(calls, Call("SectionCategory", 0, <<>>))
  /\ sp_pool' = <<>>
  /\ step_objs' = {}
  /\ frame_objs' = <<>>
  /\ i_sidx' = 1
  /\ i_pc' = "steps"
  /\ UNCHANGED <<todo, i_line, inst_map, nt11_cache, odb, disk>>
  /\ UNCHANGED <<srcVars, expVars, fileVars, meshDoc2>>

\* Mutant of FrameKey: the pools are keyed by the step alone.
FrameKey_StepOnly(sname, fidx) == <<sname, 0>>

\* The key of frame_objs and of nt11_cache: fkey = (sname, fidx)
FrameKey(sname, fidx) == <<sname, fidx>>

\* One turn of `for s in steps_json.get('steps', [])`: the step and every
\* frame listed for it.
ImpStep ==
  /\ i_pc = "steps"
  /\ i_sidx <= Len(stepsDoc.body)
  /\ LET s     == stepsDoc.body[i_sidx]
         sname == to_str(s.name)
     IN  /\ mem' = [mem EXCEPT
              !.steps = Append(@, [name |-> sname, timePeriod |-> TimePeriod(s)]),
              !.frames = @ \o [k \in DOMAIN s.frames |->
                                 [step |-> sname,
                                  incrementNumber |-> s.frames[k].index,
                                  frameValue |-> s.frames[k].value,
                                  description |-> to_str(s.frames[k].description)]]]
         /\ calls' = calls \o <<Call("Step", 0, sname)>>
                           \o [k \in DOMAIN s.frames |->
                                 Call("Frame", 0, <<sname, s.frames[k].index>>)]
         /\ step_objs' = step_objs \cup {sname}
         /\ frame_objs' =
              LET keys == {FrameKey(sname, s.frames[k].index) : k \in DOMAIN s.frames}
                  last(key) == CHOOSE k \in DOMAIN s.frames :
                                 /\ FrameKey(sname, s.frames[k].index) = key
                                 /\ \A j \in DOMAIN s.frames :
                                      FrameKey(sname, s.frames[j].index) = key => j <= k
              IN  [key \in DOMAIN frame_objs \cup keys |->
                     IF key \in keys THEN Len(mem.frames) + last(key)
                     ELSE frame_objs[key]]
  /\ i_sidx' = i_sidx + 1
  /\ UNCHANGED <<i_pc, todo, i_line, inst_map, sp_pool, nt11_cache, odb, disk>>
  /\ UNCHANGED <<srcVars, expVars, fileVars, meshDoc2>>

\* After the last step of the catalog: nt11_cache = {}; count = 0
ImpStepsEnd ==
  /\ i_pc = "steps"
  /\ i_sidx > Len(stepsDoc.body)
  /\ nt11_cache' = <<>>
  /\ i_line' = 0
  /\ i_pc' = "stream"
  /\ UNCHANGED <<todo, i_sidx, inst_map, sp_pool, step_objs, frame_objs>>
  /\ UNCHANGED <<srcVars, expVars, fileVars, tgtVars, meshDoc2>>

\* Mutant of PassSectionPoint: the position is not looked at.
PassSectionPoint_AnyPosition(sp_obj, pos) == sp_obj # 0

\* `sp_obj is not None and pos == INTEGRATION_POINT`; the handle of None is 0.
PassSectionPoint(sp_obj, pos) == sp_obj # 0 /\ pos = "#INTEGRATION_POINT"

\* step_objs[sname] raises KeyError.
StepMissing(rec) ==
  /\ FrameKey(to_str(rec.step), rec.frame_index) \notin DOMAIN frame_objs
  /\ to_str(rec.step) \notin step_objs

\* The body of the stream loop for one record, up to the instance check:
\* the frame, the field output and the section point are resolved or created.
\* Yields the store, the calls, the pools and the handles of the field output
\* and of the section point.  A field output lives in the frame it was
\* created on.
Resolve(rec, line) ==
  LET sname == to_str(rec.step)
      fidx  == rec.frame_index
      fkey  == FrameKey(sname, fidx)
      newFr == fkey \notin DOMAIN frame_objs
      newFo == fkey \notin DOMAIN nt11_cache
      sp    == rec.section_point
      key   == SPKey(sp)
      pidx  == IF sp.isNone THEN 0 ELSE PoolIndex(sp_pool, key)
      newSp == ~sp.isNone /\ pidx = 0
      m1    == IF newFr
               THEN [mem EXCEPT !.frames = Append(@,
                       [step |-> sname, incrementNumber |-> fidx,
                        frameValue |-> rec.frame_value,
                        description |-> to_str("")])]
               ELSE mem
      fobj  == IF newFr THEN Len(m1.frames) ELSE frame_objs[fkey]
      m2    == IF newFo
               THEN [m1 EXCEPT !.fieldOutputs = Append(@,
                       [step |-> m1.frames[fobj].step,
                        frame |-> m1.frames[fobj].incrementNumber,
                        name |-> to_str("NT11"), data |-> <<>>])]
               ELSE m1
      fo_   == IF newFo THEN Len(m2.fieldOutputs) ELSE nt11_cache[fkey]
      m3    == IF newSp
               THEN [m2 EXCEPT !.sectionPoints = Append(@,
                       [number |-> key[1], description |-> key[2]])]
               ELSE m2
      sp_obj == IF sp.isNone THEN 0
                ELSE IF newSp THEN Len(m3.sectionPoints)
                ELSE sp_pool[pidx].handle
  IN  [ store  |-> m3,
        calls  |-> calls
                   \o (IF newFr THEN <<Call("Frame", line, <<sname, fidx>>)>>
                       ELSE <<>>)
                   \o (IF newFo
                       THEN <<Call("FieldOutput", line,
                                   <<m1.frames[fobj].step,
                                     m1.frames[fobj].incrementNumber>>)>>
                       ELSE <<>>)
                   \o (IF newSp THEN <<Call("SectionPoint", line, key)>> ELSE <<>>),
        frames |-> IF newFr THEN (fkey :> fobj) @@ frame_objs ELSE frame_objs,
        cache  |-> IF newFo THEN (fkey :> fo_) @@ nt11_cache ELSE nt11_cache,
        pool   |-> IF newSp
                   THEN Append(sp_pool, [key |-> key, handle |-> sp_obj])
                   ELSE sp_pool,
        fo     |-> fo_,
        sp_obj |-> sp_obj ]

\* The arguments of fo.addData(...) for one record, with the field output it
\* is called on, the (step, frame index) of the record replayed and the handle
\* get_or_make_sp returned for it (0 for None).
AddDataArgs(rec, sp_obj, fobj) ==
  LET pos == pos_from_name(rec.position) IN
  [ fieldOutput     |-> fobj,
    step            |-> to_str(rec.step),
    frame           |-> rec.frame_index,
    position        |-> pos,
    instance        |-> inst_map[to_str(rec.instance)],
    labels          |-> ensure_tuple(rec.labels),
    data            |-> ensure_tuple_seq(rec.values),
    sp_obj          |-> sp_obj,
    hasSectionPoint |-> PassSectionPoint(sp_obj, pos),
    sectionPoint    |-> IF PassSectionPoint(sp_obj, pos) THEN sp_obj ELSE 0 ]

\* Mutant of ImpLine: a record naming an unknown instance is dropped and the
\* loop goes on to the next line.
ImpLine_SkipAbsent ==
  /\ i_pc = "stream"
  /\ i_line = Len(nt11)
  /\ Len(nt11) < MaxLines
  /\ \E line \in StreamLines :
       /\ nt11' = Append(nt11, line)
       /\ i_line' = i_line + 1
       /\ IF IsBlank(line)
          THEN UNCHANGED <<i_pc, sp_pool, frame_objs, nt11_cache, mem, calls>>
          ELSE IF StepMissing(line)
          THEN /\ i_pc' = "raised"
               /\ UNCHANGED <<sp_pool, frame_objs, nt11_cache, mem, calls>>
          ELSE LET r == Resolve(line, i_line + 1) IN
               /\ frame_objs' = r.frames
               /\ nt11_cache' = r.cache
               /\ sp_pool' = r.pool
               /\ UNCHANGED i_pc
               /\ IF to_str(line.instance) \notin DOMAIN inst_map
                  THEN /\ mem' = r.store
                       /\ calls' = r.calls
                  ELSE LET args == AddDataArgs(line, r.sp_obj, r.fo)
                           k    == r.fo
                       IN  /\ mem' = [r.store EXCEPT
                                        !.fieldOutputs[k].data = Append(@, args)]
                           /\ calls' = Append(r.calls,
                                              Call("addData", i_line + 1, args))
  /\ UNCHANGED <<todo, i_sidx, inst_map, step_objs, odb, disk>>
  /\ UNCHANGED <<srcVars, expVars, meshDoc, stepsDoc, meshDoc2>>

\* One line of nt11.jsonl read by stream_jsonl and, unless blank, one turn of
\* `for rec in stream_jsonl(nt11_path)`.  An unknown step raises KeyError
\* before anything is created; an unknown instance raises RuntimeError after
\* the frame, the field output and the section point were resolved.
ImpLine ==
  /\ i_pc = "stream"
  /\ i_line = Len(nt11)
  /\ Len(nt11) < MaxLines
  /\ \E line \in StreamLines :
       /\ nt11' = Append(nt11, line)
       /\ i_line' = i_line + 1
       /\ IF IsBlank(line)
          THEN UNCHANGED <<i_pc, sp_pool, frame_objs, nt11_cache, mem, calls>>
          ELSE IF StepMissing(line)
          THEN /\ i_pc' = "raised"
               /\ UNCHANGED <<sp_pool, frame_objs, nt11_cache, mem, calls>>
          ELSE LET r == Resolve(line, i_line + 1) IN
               /\ frame_objs' = r.frames
               /\ nt11_cache' = r.cache
               /\ sp_pool' = r.pool
               /\ IF to_str(line.instance) \notin DOMAIN inst_map
                  THEN /\ i_pc' = "raised"
                       /\ mem' = r.store
                       /\ calls' = r.calls
                  ELSE LET args == AddDataArgs(line, r.sp_obj, r.fo)
                           k    == r.fo
                       IN  /\ mem' = [r.store EXCEPT
                                        !.fieldOutputs[k].data = Append(@, args)]
                           /\ calls' = Append(r.calls,
                                              Call("addData", i_line + 1, args))
                           /\ UNCHANGED i_pc
  /\ UNCHANGED <<todo, i_sidx, inst_map, step_objs, odb, disk>>
  /\ UNCHANGED <<srcVars, expVars, meshDoc, stepsDoc, meshDoc2>>

\* The stream is exhausted: on to the final save.
ImpStreamEnd ==
  /\ i_pc = "stream"
  /\ i_line = Len(nt11)
  /\ i_pc' = "final_save"
  /\ UNCHANGED <<todo, i_sidx, i_line, inst_map, sp_pool, step_objs,
                 frame_objs, nt11_cache>>
  /\ UNCHANGED <<srcVars, expVars, fileVars, tgtVars, meshDoc2>>

\* main: odb.save() at the end
ImpFinalSave ==
  /\ i_pc = "final_save"
  /\ disk' = mem
  /\ calls' = Append(calls, Call("save", 0, <<>>))
  /\ i_pc' = "final_close"
  /\ UNCHANGED <<todo, i_sidx, i_line, inst_map, sp_pool, step_objs,
                 frame_objs, nt11_cache, odb, mem>>
  /\ UNCHANGED <<srcVars, expVars, fileVars, meshDoc2>>

\* main: odb.close() at the end
ImpFinalClose ==
  /\ i_pc = "final_close"
  /\ odb' = [odb EXCEPT !.state = "closed"]
  /\ calls' = Append(calls, Call("close", 0, <<>>))
  /\ i_pc' = "done"
  /\ UNCHANGED <<todo, i_sidx, i_line, inst_map, sp_pool, step_objs,
                 frame_objs, nt11_cache, mem, disk>>
  /\ UNCHANGED <<srcVars, expVars, fileVars, meshDoc2>>

\* A second export_mesh, on the store the importer saved and closed.
ReExportMesh ==
  /\ i_pc = "reopen"
  /\ ~meshDoc2.written
  /\ meshDoc2' = [written |-> TRUE, body |-> export_mesh(StoreInstances(disk))]
  /\ UNCHANGED <<srcVars, expVars, fileVars, impVars, tgtVars>>

\* ------------------------------------------------------ specifications
\* A source store with one point-cloud instance, for the field export.
PlainMesh ==
  [n \in {"A"} |-> [nodes |-> << [label |-> 1, coordinates |-> <<0, 0, 0>>] >>,
                    elements |-> <<>>]]

ImporterIdle ==
  /\ i_pc = "idle"
  /\ todo = {}
  /\ i_sidx = 0
  /\ i_line = 0
  /\ inst_map = <<>>
  /\ sp_pool = <<>>
  /\ step_objs = {}
  /\ frame_objs = <<>>
  /\ nt11_cache = <<>>
  /\ odb = [state |-> "none", gen |-> 0]
  /\ mem = NoStore
  /\ disk = NoStore
  /\ calls = <<>>
  /\ meshDoc2 = NoDoc

\* One run of the exporter on any source store.
InitExport ==
  /\ srcMesh = PlainMesh
  /\ srcFrames \in FrameCounts
  /\ srcFields = <<>>
  /\ step_filter \in StepFilters
  /\ e_pc = "main"
  /\ e_odbOpen = FALSE
  /\ e_outOpen = FALSE
  /\ e_sidx = 0
  /\ e_fidx = 0
  /\ fo = <<>>
  /\ e_vi = 0
  /\ buckets = <<>>
  /\ meshDoc = NoDoc
  /\ stepsDoc = NoDoc
  /\ nt11 = <<>>
  /\ ImporterIdle

NextExport ==
  \/ ExpOpenOdb \/ ExpMesh \/ ExpSteps \/ ExpOpenOut \/ ExpStep
  \/ ExpFramesEnd \/ ExpFrameSkip \/ ExpFrameField \/ ExpValue
  \/ ExpFlush \/ ExpFlushEnd \/ ExpCloseOut \/ ExpCloseOdb

SpecExport == InitExport /\ [][NextExport]_vars

ExporterIdle ==
  /\ srcMesh = <<>>
  /\ srcFrames = [n \in Range(StepNames) |-> 0]
  /\ srcFields = <<>>
  /\ step_filter = NoFilter
  /\ e_pc = "idle"
  /\ e_odbOpen = FALSE
  /\ e_outOpen = FALSE
  /\ e_sidx = 0
  /\ e_fidx = 0
  /\ fo = <<>>
  /\ e_vi = 0
  /\ buckets = <<>>

ImporterStart ==
  /\ i_pc = "main"
  /\ todo = {}
  /\ i_sidx = 0
  /\ i_line = 0
  /\ inst_map = <<>>
  /\ sp_pool = <<>>
  /\ step_objs = {}
  /\ frame_objs = <<>>
  /\ nt11_cache = <<>>
  /\ odb = [state |-> "none", gen |-> 0]
  /\ mem = NoStore
  /\ disk = NoStore
  /\ calls = <<>>
  /\ meshDoc2 = NoDoc

\* One run of the importer on any mesh document, catalog and stream; the
\* stream's lines are chosen as they are read.
InitImport ==
  /\ ExporterIdle
  /\ \E mesh \in ImportMeshes : meshDoc = [written |-> TRUE, body |-> mesh]
  /\ \E cat \in Catalogs : stepsDoc = [written |-> TRUE, body |-> cat]
  /\ nt11 = <<>>
  /\ ImporterStart

NextImport ==
  \/ ImpCreateOdb \/ ImpInstance \/ ImpSave \/ ImpClose \/ ImpReopen
  \/ ImpInstMap \/ ImpSectionCategory \/ ImpStep \/ ImpStepsEnd
  \/ ImpLine \/ ImpStreamEnd \/ ImpFinalSave \/ ImpFinalClose

SpecImport == InitImport /\ [][NextImport]_vars

\* The coordinates a node of the source store may have: 2-D or 3-D.
SourceCoordinates == {<<1, 2>>, <<1, 2, 3>>}

ElementTypeNames == {"DC2D4", "DC2D3"}

\* The meshes of a source store: instance A with up to MaxNodes nodes and up
\* to MaxElems elements of any types in any order, labelled 1, 2, ...; with
\* or without a point-cloud instance B.
SourceInstance(cs, tys) ==
  [nodes    |-> [i \in DOMAIN cs |-> [label |-> i, coordinates |-> cs[i]]],
   elements |-> [i \in DOMAIN tys |->
                   [label |-> i, type |-> tys[i], connectivity |-> <<1, 2>>]]]

SourceMeshes ==
  { [n \in names |->
       IF n = "A" THEN SourceInstance(cs, tys)
       ELSE SourceInstance(<< <<0, 0, 0>> >>, <<>>)] :
      names \in {{"A"}, {"A", "B"}},
      cs \in SeqsUpTo(SourceCoordinates, MaxNodes),
      tys \in SeqsUpTo(ElementTypeNames, MaxElems) }

\* export_mesh of any source mesh, the importer's geometry stage on the
\* document, and export_mesh of the store the importer saved.
InitMesh ==
  /\ srcMesh \in SourceMeshes
  /\ srcFrames = [n \in Range(StepNames) |-> 0]
  /\ srcFields = <<>>
  /\ step_filter = NoFilter
  /\ e_pc = "main"
  /\ e_odbOpen = FALSE
  /\ e_outOpen = FALSE
  /\ e_sidx = 0
  /\ e_fidx = 0
  /\ fo = <<>>
  /\ e_vi = 0
  /\ buckets = <<>>
  /\ meshDoc = NoDoc
  /\ stepsDoc = NoDoc
  /\ nt11 = <<>>
  /\ ImporterStart

NextMesh ==
  \/ ExpOpenOdb \/ ExpMesh
  \/ ImpCreateOdb \/ ImpInstance \/ ImpSave \/ ImpClose
  \/ ReExportMesh

SpecMesh == InitMesh /\ [][NextMesh]_vars

\* ------------------------------------------------- claims on export_nt11
\* The source value records of the frame a stream record belongs to.
SourceOf(r) ==
  LET k == CHOOSE k \in DOMAIN srcFields :
             /\ srcFields[k].step = r.step
             /\ srcFields[k].frame_index = r.frame_index
  IN  srcFields[k].values

\* The stream records written for the k-th field read.
RecordsOf(k) ==
  SelectSeq(nt11, LAMBDA r : /\ r.step = srcFields[k].step
                             /\ r.frame_index = srcFields[k].frame_index)

\* Every bucket of the k-th field read has been written.
Flushed(k) == k < Len(srcFields) \/ e_pc \notin {"values", "flush", "raised"}

\* The label of a source record: its node label if it carries one, else its
\* element label.
SrcLabel(v) == IF v.hasNodeLabel THEN v.nodeLabel ELSE v.elementLabel

\* Two section-point handles are both absent or carry equal (number,
\* description).
SameSectionPoint(p, q) ==
  /\ p.isNone = q.isNone
  /\ ~p.isNone => p.number = q.number /\ p.description = q.description

\* Source record v belongs to the group (instance, position, section point)
\* that stream record r names.
InGroup(v, r) ==
  /\ v.instance = r.instance
  /\ v.position = "#" \o r.position
  /\ v.sectionPoint.isNone = r.section_point.isNone
  /\ ~r.section_point.isNone =>
       /\ ~r.section_point.numIsNone
       /\ v.sectionPoint.number = r.section_point.number
       /\ v.sectionPoint.description = r.section_point.description

Distinct(s) == \A i, j \in DOMAIN s : i # j => s[i] # s[j]

\* The positions of vals, in order, whose record belongs to r's group.
RECURSIVE GroupOf(_, _)
GroupOf(vals, r) ==
  IF vals = <<>> THEN <<>>
  ELSE (IF InGroup(Head(vals), r) THEN <<Head(vals)>> ELSE <<>>)
       \o GroupOf(Tail(vals), r)

\* C4 as claimed: for every frame whose buckets are written, the labels of
\* its buckets are together the labels of its source records, and a label is
\* in two buckets only if they differ by position or by section point.
C4_AsClaimed ==
  \A k \in DOMAIN srcFields : Flushed(k) =>
    LET recs == RecordsOf(k) IN
    /\ UNION {Range(recs[i].labels) : i \in DOMAIN recs}
         = {SrcLabel(v) : v \in Range(srcFields[k].values)}
    /\ \A i, j \in DOMAIN recs :
         i # j /\ Range(recs[i].labels) \cap Range(recs[j].labels) # {}
         => \/ recs[i].position # recs[j].position
            \/ recs[i].section_point # recs[j].section_point

\* C4 (amended): for every frame whose buckets are written, the labels of its
\* buckets are together the labels of its source records, and a label is in
\* two buckets only if they differ by instance, position or section point.
C4_BucketPartition ==
  \A k \in DOMAIN srcFields : Flushed(k) =>
    LET recs == RecordsOf(k) IN
    /\ UNION {Range(recs[i].labels) : i \in DOMAIN recs}
         = {SrcLabel(v) : v \in Range(srcFields[k].values)}
    /\ \A i, j \in DOMAIN recs :
         i # j /\ Range(recs[i].labels) \cap Range(recs[j].labels) # {}
         => \/ recs[i].instance # recs[j].instance
            \/ recs[i].position # recs[j].position
            \/ recs[i].section_point # recs[j].section_point

\* A written frame with one label in two buckets.
C4_Witness ==
  \E k \in DOMAIN srcFields :
    /\ Flushed(k)
    /\ \E i, j \in DOMAIN RecordsOf(k) :
         /\ i # j
         /\ Range(RecordsOf(k)[i].labels) \cap Range(RecordsOf(k)[j].labels) # {}

\* C5 as claimed: the labels of every stream record are pairwise distinct.
C5_AsClaimed == \A r \in Range(nt11) : Distinct(r.labels)

\* No two source records of the frame agree on instance, position, section
\* point (number, description) and label.
SourceUnique(vals) ==
  \A i, j \in DOMAIN vals :
    i # j =>
      \/ vals[i].instance # vals[j].instance
      \/ vals[i].position # vals[j].position
      \/ ~SameSectionPoint(vals[i].sectionPoint, vals[j].sectionPoint)
      \/ SrcLabel(vals[i]) # SrcLabel(vals[j])

\* C5 (amended): the labels of a stream record are pairwise distinct when no
\* two source records of its frame agree on instance, position, section point
\* and label.
C5_LabelsUnique ==
  \A r \in Range(nt11) : SourceUnique(SourceOf(r)) => Distinct(r.labels)

\* A stream record of two labels from a frame without repeated records.
C5_Witness ==
  \E r \in Range(nt11) : SourceUnique(SourceOf(r)) /\ Len(r.labels) >= 2

\* C6: a stream record holds one label per source record of its frame with
\* the record's instance, position and section point (number, description),
\* whatever the handles: equal section points share the bucket, and a record
\* without section point is in no bucket that has one.
C6_SectionPointCanonical ==
  \A r \in Range(nt11) :
    /\ Len(r.labels) = Len(GroupOf(SourceOf(r), r))
    /\ \A v \in Range(SourceOf(r)) :
         v.sectionPoint.isNone # r.section_point.isNone => ~InGroup(v, r)

\* A stream record fed by two distinct handles of equal (number,
\* description), from a frame that also holds a record without section point.
C6_Witness ==
  \E r \in Range(nt11) :
    /\ \E v, w \in Range(SourceOf(r)) :
         /\ InGroup(v, r) /\ InGroup(w, r)
         /\ v.sectionPoint.id # w.sectionPoint.id
    /\ Len(r.labels) = 2

\* C8: in every stream record labels and values have one length, and the
\* pairs (labels[i], values[i]) are the (label, value) of the source records
\* of the record's group, in the order of the source field.
C8_LabelValueAlignment ==
  \A r \in Range(nt11) :
    LET g == GroupOf(SourceOf(r), r) IN
    /\ Len(r.labels) = Len(r.values)
    /\ Len(r.labels) = Len(g)
    /\ \A i \in DOMAIN g :
         /\ r.labels[i] = SrcLabel(g[i])
         /\ r.values[i] = <<g[i].data.items[1]>>

\* A stream record whose labels are not in ascending order and whose values
\* differ.
C8_Witness ==
  \E r \in Range(nt11) :
    /\ Len(r.labels) = 2
    /\ r.labels[1] > r.labels[2]
    /\ r.values[1] # r.values[2]

\* ---------------------------------------------------- claims on the importer
Reopens == {i \in DOMAIN calls : calls[i].op = "openOdb"}

\* C1: on the target store every geometry write precedes the save, every
\* results write follows the reopen, the reopen directly follows a save and a
\* close and happens at most once, and exactly once in a run that has ended.
C1_StrictOrder ==
  /\ Cardinality(Reopens) <= 1
  /\ \A r \in Reopens :
       r > 2 /\ calls[r - 1].op = "close" /\ calls[r - 2].op = "save"
  /\ \A i \in DOMAIN calls :
       /\ calls[i].op \in ResultsOps => \E r \in Reopens : r < i
       /\ calls[i].op \in GeometryOps =>
            \A j \in DOMAIN calls :
              calls[j].op \in {"save", "close", "openOdb"} \cup ResultsOps
              => i < j
  /\ i_pc \in {"done", "raised"} => Cardinality(Reopens) = 1

\* A finished run that wrote geometry and appended data.
C1_Witness ==
  /\ i_pc = "done"
  /\ \E i, j \in DOMAIN calls :
       calls[i].op = "addElements" /\ calls[j].op = "addData"

\* C2 as claimed: when the importer has ended, normally or by an error, its
\* store handle is not open.
C2_AsClaimed == i_pc \in {"done", "raised"} => odb.state # "open"

\* (sname, fidx) is a frame of the catalog document.
InCatalog(sname, fidx) ==
  \E k \in DOMAIN stepsDoc.body :
    /\ stepsDoc.body[k].name = sname
    /\ \E f \in DOMAIN stepsDoc.body[k].frames :
         stepsDoc.body[k].frames[f].index = fidx

\* C7 as claimed: every record read whose (step, frame index) is not in the
\* catalog, and whose instance is in the store, has its frame in the store
\* and its data appended.
C7_AsClaimed ==
  \A n \in 1..i_line :
    ( /\ ~IsBlank(nt11[n])
      /\ ~InCatalog(nt11[n].step, nt11[n].frame_index)
      /\ nt11[n].instance \in DOMAIN inst_map )
    => /\ \E f \in DOMAIN mem.frames :
            /\ mem.frames[f].step = nt11[n].step
            /\ mem.frames[f].incrementNumber = nt11[n].frame_index
       /\ \E c \in DOMAIN calls : calls[c].op = "addData" /\ calls[c].line = n

NotBlank(line) == ~IsBlank(line)
IsAddData(c) == c.op = "addData"

\* C9 as claimed: if every record read names an instance of the store, the
\* addData calls are one per record read, in stream order, each with its
\* record's step, frame index, labels and values.
C9_AsClaimed ==
  LET recs == SelectSeq(SubSeq(nt11, 1, i_line), NotBlank)
      adds == SelectSeq(calls, IsAddData)
  IN  (\A k \in DOMAIN recs : recs[k].instance \in DOMAIN inst_map)
      => /\ Len(adds) = Len(recs)
         /\ \A k \in DOMAIN recs :
              /\ adds[k].info.step = recs[k].step
              /\ adds[k].info.frame = recs[k].frame_index
              /\ adds[k].info.labels = recs[k].labels
              /\ adds[k].info.data = recs[k].values

\* C10: an addData call carries a section point exactly when its record's
\* position is INTEGRATION_POINT and its section point is not null.
C10_SectionPointRule ==
  \A i \in DOMAIN calls :
    calls[i].op = "addData" =>
      ( calls[i].info.hasSectionPoint
        <=> /\ nt11[calls[i].line].position = "INTEGRATION_POINT"
            /\ ~nt11[calls[i].line].section_point.isNone )

\* One append with a section point, and one without for a record that has a
\* section point at another position.
C10_Witness ==
  /\ \E i \in DOMAIN calls :
       calls[i].op = "addData" /\ calls[i].info.hasSectionPoint
  /\ \E i \in DOMAIN calls :
       /\ calls[i].op = "addData"
       /\ ~calls[i].info.hasSectionPoint
       /\ ~nt11[calls[i].line].section_point.isNone

\* ------------------------------------------------ claims on the mesh
\* C3 as claimed: the mesh document exported from the store the importer
\* built equals the mesh document it was built from.
C3_AsClaimed == meshDoc2.written => meshDoc2.body = meshDoc.body

\* ------------------------------------------------ claims on the importer, II
\* The stream record of line i names an instance the reopened store lacks.
InstanceAbsent(i) ==
  /\ NotBlank(nt11[i])
  /\ to_str(nt11[i].instance) \notin DOMAIN mem.instances

\* C11: when a stream record names an instance that is absent from the
\* reopened store, the results stage aborts: no addData is made for that
\* record and no later line of the stream is read or replayed.
C11_AbsentInstanceAborts ==
  \A i \in DOMAIN nt11 :
    InstanceAbsent(i) =>
      /\ i_pc = "raised"
      /\ i = Len(nt11) /\ i_line = i
      /\ \A j \in DOMAIN calls :
           /\ calls[j].line <= i
           /\ calls[j].op = "addData" => calls[j].line # i

\* An earlier record was written, then a record of a known step names an
\* instance the store lacks: the RuntimeError of the instance check.
C11_Witness ==
  /\ Len(nt11) = 2
  /\ InstanceAbsent(2)
  /\ to_str(nt11[2].step) \in step_objs
  /\ \E j \in DOMAIN calls : calls[j].op = "addData" /\ calls[j].line = 1
  /\ \E j \in DOMAIN calls : calls[j].op = "FieldOutput" /\ calls[j].line = 2
  /\ i_pc = "raised"

\* ------------------------------------------------ claims on export_nt11, II
\* The k-th field read holds a payload that is neither a scalar nor a
\* 1-element sequence.
HasBadPayload(k) ==
  \E i \in DOMAIN srcFields[k].values :
    /\ srcFields[k].values[i].data.kind # "scalar"
    /\ Len(srcFields[k].values[i].data.items) # 1

\* C12: a frame with a payload that is neither a scalar nor a 1-element
\* sequence aborts the export: the run never leaves that frame's value loop
\* except by raising, no stream record is written for that frame or a later
\* one, and every record written holds 1-element sequences of one number.
C12_BadPayloadAborts ==
  /\ \A k \in DOMAIN srcFields :
       HasBadPayload(k) =>
         /\ k = Len(srcFields)
         /\ e_pc \in {"values", "raised"}
         /\ RecordsOf(k) = <<>>
         /\ \A r \in Range(nt11) :
              \E j \in 1..(k - 1) : /\ r.step = srcFields[j].step
                                    /\ r.frame_index = srcFields[j].frame_index
  /\ \A r \in Range(nt11) :
       \A i \in DOMAIN r.values : Len(r.values[i]) = 1 /\ r.values[i][1] \in Nat
  /\ e_pc = "raised" => HasBadPayload(Len(srcFields))

\* An earlier frame was written, then a frame with a 2-element payload made
\* the run raise.
C12_Witness ==
  /\ e_pc = "raised"
  /\ Len(srcFields) = 2
  /\ HasBadPayload(2)
  /\ nt11 # <<>>

\* The frame loop has gone past frame f of the step at position sidx.
Passed(sidx, f) ==
  /\ sidx \in DOMAIN StepNames
  /\ ~FilteredOut(step_filter, StepNames[sidx])
  /\ f < srcFrames[StepNames[sidx]]
  /\ \/ 1 <= sidx /\ sidx < e_sidx
     \/ sidx = e_sidx /\ e_pc \in {"frame", "values", "flush", "raised"}
                      /\ f < e_fidx

\* Frame f of the step was read with an NT11 field that holds values.
HasField(sname, f) ==
  \E k \in DOMAIN srcFields :
    srcFields[k].step = sname /\ srcFields[k].frame_index = f

\* Frame f of the step at sidx was passed over: its NT11 field is absent or
\* has no values.
Skipped(sidx, f) == Passed(sidx, f) /\ ~HasField(StepNames[sidx], f)

\* C13: a frame whose NT11 field is absent or empty contributes no stream
\* record, the frame loop of its step goes on to the next frame (it is left
\* only after the last frame or by raising), a later frame with values is
\* written, and every stream record has a non-empty labels sequence.
C13_SkipEmptyFrames ==
  /\ [] /\ \A sidx \in DOMAIN StepNames : \A f \in 0..(MaxFrames - 1) :
             Skipped(sidx, f) =>
               \A r \in Range(nt11) :
                 ~(r.step = StepNames[sidx] /\ r.frame_index = f)
        /\ \A k \in DOMAIN srcFields :
             Flushed(k) => RecordsOf(k) # <<>>
        /\ \A r \in Range(nt11) : r.labels # <<>>
  /\ [][ /\ e_pc = "frame" /\ e_pc' # "values"
            => \/ e_pc' = "frame" /\ e_sidx' = e_sidx /\ e_fidx' = e_fidx + 1
               \/ e_pc' = "step" /\ e_fidx >= srcFrames[e_sname]
         /\ e_pc = "flush" /\ e_pc' # "flush"
            => e_pc' = "frame" /\ e_sidx' = e_sidx /\ e_fidx' = e_fidx + 1
       ]_vars

\* Frame 0 of a step was passed over and frame 1 of the same step is written.
C13_Witness ==
  \E sidx \in DOMAIN StepNames :
    /\ Skipped(sidx, 0)
    /\ \E k \in DOMAIN srcFields :
         /\ srcFields[k].step = StepNames[sidx]
         /\ srcFields[k].frame_index = 1
         /\ Flushed(k)
         /\ RecordsOf(k) # <<>>

\* The phase of the import a control point belongs to: 1 EMPTY, 2
\* GEOMETRY_BUILT (building, or saved and not yet closed), 3
\* GEOMETRY_COMMITTED, 4 RESULTS_BUILDING (a raise happens there), 5
\* RESULTS_COMMITTED.
Phase(pc) ==
  CASE pc \in {"idle", "main"}      -> 1
    [] pc \in {"geometry", "close"} -> 2
    [] pc = "reopen"                -> 3
    [] pc = "done"                  -> 5
    [] OTHER                        -> 4

\* The parts and instances of a store.
Geometry(store) == [parts |-> store.parts, instances |-> store.instances]

\* The store holds a part and an instance for every instance of the mesh
\* document, with the document's nodes and elements.
HoldsGeometry(store) ==
  /\ store.exists
  /\ DOMAIN store.instances = {to_str(n) : n \in DOMAIN meshDoc.body}
  /\ \A n \in DOMAIN meshDoc.body :
       LET part == store.parts[store.instances[to_str(n)]] IN
       /\ [i \in DOMAIN part.nodes |-> part.nodes[i].label]
            = [i \in DOMAIN meshDoc.body[n].nodes |-> meshDoc.body[n].nodes[i][1]]
       /\ {part.elements[i].label : i \in DOMAIN part.elements}
            = {meshDoc.body[n].elements[i].label :
                 i \in DOMAIN meshDoc.body[n].elements}
       /\ Len(part.elements) = Len(meshDoc.body[n].elements)

\* C14: from the first save and close on, whatever happens (a raise in the
\* results stage included), the persisted store and the reopened store hold
\* every part and instance of the geometry stage, the persisted geometry
\* never changes, and the phases are passed one by one without going back.
C14_GeometrySurvives ==
  /\ [] ( Phase(i_pc) >= 3 =>
            /\ HoldsGeometry(disk)
            /\ odb.state = "open" => HoldsGeometry(mem) )
  /\ [] ( i_pc = "raised" => Geometry(mem) = Geometry(disk) )
  /\ [][ /\ Phase(i_pc') \in {Phase(i_pc), Phase(i_pc) + 1}
         /\ disk.exists => Geometry(disk') = Geometry(disk) ]_vars

\* A raise in the stream loop after a field output with data was built: the
\* open store holds partial results, the persisted one the geometry only.
C14_Witness ==
  /\ i_pc = "raised"
  /\ \E k \in DOMAIN mem.fieldOutputs : mem.fieldOutputs[k].data # <<>>
  /\ disk.fieldOutputs = <<>>
  /\ \E n \in DOMAIN disk.instances :
       disk.parts[disk.instances[n]].elements # <<>>

\* C15: the store holds at most one NT11 field output per (step, frame
\* index), created by at most one FieldOutput call, and every addData of a
\* record is made on the field output of the record's (step, frame index):
\* all records of one frame append to one field output.
C15_OneFieldOutputPerFrame ==
  /\ LET made == {i \in DOMAIN calls : calls[i].op = "FieldOutput"}
     IN  \A i, j \in made : calls[i].info = calls[j].info => i = j
  /\ \A a, b \in DOMAIN mem.fieldOutputs :
       ( /\ mem.fieldOutputs[a].step = mem.fieldOutputs[b].step
         /\ mem.fieldOutputs[a].frame = mem.fieldOutputs[b].frame ) => a = b
  /\ \A c \in DOMAIN calls :
       calls[c].op = "addData" =>
         LET h   == calls[c].info.fieldOutput
             rec == nt11[calls[c].line]
         IN  /\ h \in DOMAIN mem.fieldOutputs
             /\ mem.fieldOutputs[h].step = to_str(rec.step)
             /\ mem.fieldOutputs[h].frame = rec.frame_index
             /\ calls[c].info \in Range(mem.fieldOutputs[h].data)

\* Two different records of one (step, frame index) were replayed: one
\* FieldOutput call was made and one field output holds the data of both.
C15_Witness ==
  /\ Len(nt11) = 2
  /\ NotBlank(nt11[1]) /\ NotBlank(nt11[2])
  /\ nt11[1] # nt11[2]
  /\ nt11[1].step = nt11[2].step /\ nt11[1].frame_index = nt11[2].frame_index
  /\ Cardinality({c \in DOMAIN calls : calls[c].op = "FieldOutput"}) = 1
  /\ \E h \in DOMAIN mem.fieldOutputs : Len(mem.fieldOutputs[h].data) = 2

\* The addData calls of records that carry a section point.
WithSectionPoint ==
  {c \in DOMAIN calls :
     calls[c].op = "addData" /\ ~nt11[calls[c].line].section_point.isNone}

\* C16 as claimed: a section point is constructed at most once per (number,
\* description), and two records resolve to one handle exactly when their
\* section points have equal number and equal description.
C16_AsClaimed ==
  /\ LET made == {i \in DOMAIN calls : calls[i].op = "SectionPoint"}
     IN  \A i, j \in made : calls[i].info = calls[j].info => i = j
  /\ \A c, d \in WithSectionPoint :
       calls[c].info.sp_obj = calls[d].info.sp_obj
       <=> LET p == nt11[calls[c].line].section_point
               q == nt11[calls[d].line].section_point
           IN  /\ p.numIsNone = q.numIsNone
               /\ ~p.numIsNone => p.number = q.number
               /\ p.description = q.description

\* The number a section point of the stream is constructed with: its number,
\* 1 if the number is null.
NumberOr1(sp) == IF sp.numIsNone THEN 1 ELSE sp.number

\* C16 (amended): a section point is constructed at most once per (number,
\* description) with a null number read as 1, the handle a record resolves to
\* is the section point of its (number or 1, description), and so two records
\* resolve to one handle exactly when they agree on (number or 1, description).
C16_SectionPointPool ==
  /\ LET made == {i \in DOMAIN calls : calls[i].op = "SectionPoint"}
     IN  \A i, j \in made : calls[i].info = calls[j].info => i = j
  /\ \A a, b \in DOMAIN mem.sectionPoints :
       mem.sectionPoints[a] = mem.sectionPoints[b] => a = b
  /\ LET with == WithSectionPoint IN
     /\ \A c \in with :
          LET h == calls[c].info.sp_obj
              p == nt11[calls[c].line].section_point
          IN  /\ h \in DOMAIN mem.sectionPoints
              /\ mem.sectionPoints[h].number = NumberOr1(p)
              /\ mem.sectionPoints[h].description = p.description
     /\ \A c, d \in with :
          calls[c].info.sp_obj = calls[d].info.sp_obj
          <=> LET p == nt11[calls[c].line].section_point
                  q == nt11[calls[d].line].section_point
              IN  NumberOr1(p) = NumberOr1(q) /\ p.description = q.description

\* Two records at different positions with one section point were replayed:
\* they share the handle made by the one SectionPoint call.
C16_Witness ==
  /\ Len(nt11) = 2
  /\ \E c, d \in WithSectionPoint :
       /\ calls[c].line = 1 /\ calls[d].line = 2
       /\ nt11[1].section_point = nt11[2].section_point
       /\ nt11[1].position # nt11[2].position
       /\ calls[c].info.sp_obj = calls[d].info.sp_obj
  /\ Cardinality({i \in DOMAIN calls : calls[i].op = "SectionPoint"}) = 1

\* The number of openings of the store (Odb, then openOdb) before call i.
OpeningsBefore(i) ==
  Cardinality({j \in 1..(i - 1) : calls[j].op \in {"Odb", "openOdb"}})

\* C17: every call on the store is made on the handle of the latest opening,
\* so every results-stage call on the handle openOdb returned; the instance
\* handle of every addData, and every handle of inst_map, was read from the
\* store after the reopen.
C17_FreshHandles ==
  /\ \A i \in DOMAIN calls :
       calls[i].op \notin {"Odb", "openOdb"} =>
         /\ calls[i].handle = OpeningsBefore(i)
         /\ calls[i].op \in ResultsOps => calls[i].handle = 2
         /\ calls[i].op = "addData" =>
              calls[i].info.instance.gen = calls[i].handle
  /\ Phase(i_pc) >= 4 /\ i_pc # "inst_map" =>
       \A k \in DOMAIN inst_map : inst_map[k].gen = odb.gen /\ odb.gen = 2

\* Geometry was written on the first handle, a step and data on the second,
\* the data against an instance handle of the reopened store.
C17_Witness ==
  /\ \E i \in DOMAIN calls : calls[i].op = "addNodes" /\ calls[i].handle = 1
  /\ \E i \in DOMAIN calls : calls[i].op = "Step" /\ calls[i].handle = 2
  /\ \E i \in DOMAIN calls :
       calls[i].op = "addData" /\ calls[i].info.instance.gen = 2

\* ------------------------------------------------ claims on the exporter
\* The keys the importer's catalog loop puts in frame_objs for a catalog.
CatalogKeys(steps) ==
  UNION { {FrameKey(to_str(steps[k].name), steps[k].frames[f].index) :
             f \in DOMAIN steps[k].frames} : k \in DOMAIN steps }

\* C18: whatever the allow-list, every stream record written names a step of
\* the catalog written by the same run and a frame listed for that step with
\* the record's frame value; so its key is among the keys the importer takes
\* from the catalog and no frame has to be created for it.
C18_StreamWithinCatalog ==
  LET keys == CatalogKeys(stepsDoc.body) IN
  \A r \in Range(nt11) :
    /\ stepsDoc.written
    /\ \E k \in DOMAIN stepsDoc.body :
         /\ stepsDoc.body[k].name = r.step
         /\ \E f \in DOMAIN stepsDoc.body[k].frames :
              /\ stepsDoc.body[k].frames[f].index = r.frame_index
              /\ stepsDoc.body[k].frames[f].value = r.frame_value
    /\ FrameKey(to_str(r.step), r.frame_index) \in keys

\* A finished run with the allow-list (S2) on a store whose step S1 has a
\* frame: the stream holds a record, and the catalog does not list S1.
C18_Witness ==
  /\ e_pc = "done"
  /\ step_filter.given /\ step_filter.names = <<"S2">>
  /\ srcFrames["S1"] >= 1
  /\ nt11 # <<>>
  /\ \A k \in DOMAIN stepsDoc.body : stepsDoc.body[k].name # "S1"

====
